---- MODULE Spec2Model ----
(***************************************************************************)
(* Model of MkpEnv, the multi-dimensional knapsack environment of          *)
(* src/2023_08/_01_DQN_MKP/c_mkp_env.py.                                   *)
(*                                                                         *)
(* The state is the object's fields; Reset and Step are the two public     *)
(* operations.  Every array keeps the source's 0-based indices; Python     *)
(* lists are sequences (list index i is sequence index i + 1).  All        *)
(* numbers the environment handles are integral, so the float matrix is    *)
(* modelled with integers; a reward is the pair <<numerator, denominator>> *)
(* of the division the code performs.                                      *)
(***************************************************************************)
EXTENDS Integers, Sequences, FiniteSets

(* ----------------------------- configuration --------------------------- *)

\* env_config["num_items"], env_config["num_resources"]
NumItems == 3
NumResources == 1

\* env_config["initial_resources_capacity"][r], the same for every resource
Capacity == 1

\* calls of step per episode the model follows (the history list grows with
\* every call, failed or not)
MaxSteps == 3

\* config["early_stop_patience"] is drawn from 1 .. MaxPatience,
\* config["max_num_episodes"] is MaxEpisodes (a validation after every episode),
\* and a validation reward average is an integer of up to MaxReward in size
MaxPatience == 3
MaxEpisodes == 4
MaxReward == 2

Items == 0 .. (NumItems - 1)
Rows == 0 .. NumItems
Resources == 0 .. (NumResources - 1)

\* what a caller may pass to step: every index numpy accepts for a matrix of
\* NumItems + 1 rows, and one index beyond it on either side
Actions == (0 - NumItems - 2) .. (NumItems + 1)

initial_resources_capacity == [r \in Resources |-> Capacity]

\* the env_config dictionaries the environment is constructed with: the mode
\* flags and the sampling ranges (np.random.randint draws from low .. high - 1).
\* One configuration varies the values, with every demand equal to the capacity;
\* another varies the demands from nothing to more than the capacity, also with
\* normalized observations; the last has an empty demand range.
Range(low, high) == [low |-> low, high |-> high]
EnvConfig(static, same, normalization, value, demand) ==
    [use_static_item_resource_demand |-> static,
     use_same_item_resource_demand |-> same,
     state_normalization |-> normalization,
     lowest_item_value |-> value.low,
     highest_item_value |-> value.high,
     lowest_item_resource_demand |-> [r \in Resources |-> demand.low],
     highest_item_resource_demand |-> [r \in Resources |-> demand.high]]
DemandConfigs ==
    {EnvConfig(FALSE, same, FALSE, Range(1, 2), Range(0, Capacity + 2)) :
        same \in BOOLEAN}
ValueConfigs ==
    {EnvConfig(FALSE, same, FALSE, Range(0, 2), Range(Capacity, Capacity + 1)) :
        same \in BOOLEAN}
StaticConfigs == {EnvConfig(TRUE, FALSE, FALSE, Range(0, 2), Range(0, Capacity + 2))}
NormalizedConfigs ==
    {EnvConfig(FALSE, TRUE, TRUE, Range(1, 2), Range(0, Capacity + 1))}
EmptyRangeConfigs ==
    {EnvConfig(FALSE, TRUE, FALSE, Range(0, 2), Range(Capacity, Capacity))}
\* values of 1 and 2 on items that demand nothing
RoundingConfigs == {EnvConfig(FALSE, TRUE, FALSE, Range(1, 3), Range(0, 1))}

\* Optional[...] fields before their first assignment
None == << >>

NoError == "ok"
AttributeError == "AttributeError"
IndexError == "IndexError"
RewardAssertion == "AssertionError: reward < 1.0"
TYPE_FAIL_1 == "The Same Item Selected"
TYPE_FAIL_2 == "Resource Limit Exceeded"
TYPE_SUCCESS_1 == "All Items Allocated Successfully"
TYPE_SUCCESS_2 == "An Unavailable Resource"
RecursionError == "RecursionError"
ValueError == "ValueError"
NoReason == "-"

VARIABLES
    env_config,                       \* the configuration fields __init__ stores
    item_values,                      \* _item_values: None or [Items -> Int]
    item_resource_demand,             \* _item_resource_demand: None or [Items -> [Resources -> Int]]
    internal_state,                   \* _internal_state: None or [Rows -> [flag, value, demand]]
    actions_selected,                 \* _actions_selected (None, like [], is << >>: it is None
                                      \* exactly while internal_state is None)
    value_allocated,                  \* _value_allocated
    resources_allocated,              \* _resources_allocated, a Python list
    total_value,                      \* _total_value (0 while internal_state is None)
    reward,                           \* _reward: None or <<value_step, total_value>>
    action_mask,                      \* _action_mask: None or [Items -> {0, 1}]
    result,                           \* what the last call handed to its caller
    validation_env,                   \* None, or the fields of the second environment
                                      \* (the variables above are those of the active one)
    aliased,                          \* the fields whose object both environments hold
    active,                           \* which environment the variables above belong to
    mkp_saver,                        \* the MKP trainer's early_stop_model_saver with the
                                      \* position of its train_loop; None before DQN(...)
    task_saver,                       \* the same for the task-allocation trainer
    transition_mask,                  \* None, or the action_mask of one Transition in the
                                      \* replay buffer: what it held when stored, what it
                                      \* holds now, and whether it is the _action_mask array
    episode_reward                    \* the driver's sum of the rewards of the episode, a
                                      \* float << exp, bits >>

vars == << env_config, item_values, item_resource_demand, internal_state, actions_selected,
           value_allocated, resources_allocated, total_value, reward,
           action_mask, result, validation_env, aliased, active, mkp_saver, task_saver,
           transition_mask, episode_reward >>

\* the two trainers' variables
trainers == << mkp_saver, task_saver, transition_mask >>

(* ------------------------------- helpers -------------------------------- *)

RECURSIVE SumOver(_, _)
SumOver(f, S) ==
    IF S = {} THEN 0
    ELSE LET x == CHOOSE y \in S : TRUE IN f[x] + SumOver(f, S \ {x})

\* [0] * n
Zeros(n) == [k \in 1 .. n |-> 0]

\* numpy's row addressing: a negative index counts from the end
RowOf(action_idx) ==
    IF action_idx >= 0 THEN action_idx ELSE NumItems + 1 + action_idx

IndexInBounds(action_idx) ==
    action_idx >= 0 - (NumItems + 1) /\ action_idx <= NumItems

(* ------------------------- two environment objects --------------------- *)

\* the fields step writes in place (ndarray item assignment, list.append and
\* list +=); every other field is only ever rebound
MutableFields ==
    {"internal_state", "actions_selected", "resources_allocated", "action_mask"}

\* copy.copy would hand the clone the original's containers
ShallowCopyAliases == MutableFields

\* copy.deepcopy copies every container: the clone shares none
DeepCopyAliases == {}

\* the fields of the active environment as one object
EnvObject ==
    [item_values |-> item_values, item_resource_demand |-> item_resource_demand,
     internal_state |-> internal_state, actions_selected |-> actions_selected,
     value_allocated |-> value_allocated, resources_allocated |-> resources_allocated,
     total_value |-> total_value, reward |-> reward, action_mask |-> action_mask,
     result |-> result]

\* an in-place write shows in the other environment through every aliased field
WriteThrough(other, written) ==
    IF other = None THEN None
    ELSE [f \in DOMAIN other |-> IF f \in aliased THEN written[f] ELSE other[f]]

(* ------------------------- masks held by the caller -------------------- *)

\* info["ACTION_MASK"] = self._action_mask: reset and a non-terminating step
\* hand out the array the environment goes on writing to (the terminating
\* step hands out a new array, np.ones(...) * -1.0)
IsActionMaskObject(terminated) == ~terminated

\* a mask as the caller stores it
HeldMask(mask, terminated) ==
    [stored |-> mask, now |-> mask, is_action_mask |-> IsActionMaskObject(terminated)]

\* self._action_mask[unavailable_items_indices] = 1.0 writes to the array
\* itself, whoever else holds it
MaskAfterWrite(held, written) ==
    IF held = None THEN None
    ELSE [held EXCEPT !.now = IF held.is_action_mask THEN written ELSE @]

\* self._action_mask = np.zeros(...) in reset: the environment lets go of the
\* old array
MaskAfterRebinding(held) ==
    IF held = None THEN None ELSE [held EXCEPT !.is_action_mask = FALSE]

(* --------------------------- instance generator ------------------------- *)

\* STATIC_VALUE_SAMPLE and STATIC_RESOURCE_DEMAND_SAMPLE of a_config: one value
\* and one demand vector per item, fixed for the life of the process
STATIC_VALUE_SAMPLE == [i \in Items |-> 1]
STATIC_RESOURCE_DEMAND_SAMPLE ==
    [i \in Items |-> [r \in Resources |-> IF i = NumItems - 1 THEN 0 ELSE 1]]

\* np.random.randint(low, high): low inclusive, high exclusive
SampledValues ==
    [Items -> env_config.lowest_item_value .. (env_config.highest_item_value - 1)]
SampledDemands ==
    [Items ->
        {d \in [Resources -> 0 .. (Capacity + 1)] :
            \A r \in Resources :
                /\ d[r] >= env_config.lowest_item_resource_demand[r]
                /\ d[r] < env_config.highest_item_resource_demand[r]}]

\* a variant without the static branch
NextInstancesIgnoringStatic ==
    IF env_config.use_same_item_resource_demand /\ item_resource_demand # None
    THEN {[values |-> item_values, demand |-> item_resource_demand]}
    ELSE {[values |-> v, demand |-> d] : v \in SampledValues, d \in SampledDemands}

\* a variant that draws again although an instance is cached
NextInstancesWithoutCache ==
    IF env_config.use_static_item_resource_demand
    THEN {[values |-> STATIC_VALUE_SAMPLE, demand |-> STATIC_RESOURCE_DEMAND_SAMPLE]}
    ELSE {[values |-> v, demand |-> d] : v \in SampledValues, d \in SampledDemands}

\* the instances get_initial_internal_state may leave in _item_values and
\* _item_resource_demand: the static sample, the cached sample, or a new draw
NextInstances ==
    IF env_config.use_static_item_resource_demand
    THEN {[values |-> STATIC_VALUE_SAMPLE, demand |-> STATIC_RESOURCE_DEMAND_SAMPLE]}
    ELSE IF env_config.use_same_item_resource_demand /\ item_resource_demand # None
    THEN {[values |-> item_values, demand |-> item_resource_demand]}
    ELSE {[values |-> v, demand |-> d] : v \in SampledValues, d \in SampledDemands}

\* a variant that builds on the previous matrix instead of np.zeros
InitialInternalStateOnOldFlags(inst) ==
    [row \in Rows |->
        IF row < NumItems
        THEN [flag |-> IF internal_state = None THEN 0 ELSE internal_state[row].flag,
              value |-> inst.values[row], demand |-> inst.demand[row]]
        ELSE [flag |-> 0, value |-> 0, demand |-> initial_resources_capacity]]

\* the matrix get_initial_internal_state returns: one row (0, value, demand) per
\* item and the aggregate row (0, 0, capacity)
InitialInternalState(inst) ==
    [row \in Rows |->
        IF row < NumItems
        THEN [flag |-> 0, value |-> inst.values[row], demand |-> inst.demand[row]]
        ELSE [flag |-> 0, value |-> 0, demand |-> initial_resources_capacity]]

\* state[:-1, 1].sum()
TotalValueOf(state) == SumOver([i \in Items |-> state[i].value], Items)

(* ------------------------------ action mask ----------------------------- *)

\* a variant that looks at the demands only
UnavailableByDemandOnly(state) ==
    {i \in Items :
        \E r \in Resources : state[i].demand[r] > state[NumItems].demand[r]}

\* _get_unavailable_items_indices: rows whose flag is 1.0 or whose demand entry
\* exceeds the aggregate row's entry in some resource
UnavailableItemsIndices(state) ==
    {i \in Items :
        \/ state[i].flag = 1
        \/ \E r \in Resources : state[i].demand[r] > state[NumItems].demand[r]}

\* mask[unavailable_items_indices] = 1.0
MarkUnavailable(mask, unavailable) ==
    [i \in Items |-> IF i \in unavailable THEN 1 ELSE mask[i]]

(* ------------------------------ observation ---------------------------- *)

\* a matrix entry x / d, kept as the pair of its operands (d = 1: not divided)
Cell(x, d) == << x, d >>

\* _normalize_internal_state: a copy whose value column is divided by
\* _highest_item_value and whose resource columns by the capacities
NormalizeInternalState(state) ==
    [row \in Rows |->
        [flag |-> Cell(state[row].flag, 1),
         value |-> Cell(state[row].value, env_config.highest_item_value),
         demand |-> [r \in Resources |->
                        Cell(state[row].demand[r], initial_resources_capacity[r])]]]

\* the matrix as it is, every entry undivided
Plain(state) ==
    [row \in Rows |->
        [flag |-> Cell(state[row].flag, 1),
         value |-> Cell(state[row].value, 1),
         demand |-> [r \in Resources |-> Cell(state[row].demand[r], 1)]]]

\* ndarray.flatten(): row after row, each row as flag, value, demands
Width == 2 + NumResources
Flatten(matrix) ==
    [k \in 1 .. ((NumItems + 1) * Width) |->
        LET row == (k - 1) \div Width
            col == (k - 1) % Width
        IN  IF col = 0 THEN matrix[row].flag
            ELSE IF col = 1 THEN matrix[row].value
            ELSE matrix[row].demand[col - 2]]

\* "make observation" of reset and step
Observation(state) ==
    Flatten(IF env_config.state_normalization
            THEN NormalizeInternalState(state)
            ELSE Plain(state))

(* -------------------------------- reset --------------------------------- *)

\* np.random.randint raises ValueError for low >= high
DemandRangeEmpty ==
    \E r \in Resources :
        env_config.lowest_item_resource_demand[r] >=
            env_config.highest_item_resource_demand[r]
ValueRangeEmpty == env_config.lowest_item_value >= env_config.highest_item_value

\* get_initial_internal_state is about to draw a new instance
SamplingNeeded ==
    /\ ~env_config.use_static_item_resource_demand
    /\ ~(env_config.use_same_item_resource_demand /\ item_resource_demand # None)

\* the draw fails in the first pass of the loop: both arrays were already
\* replaced by zeros, and with a valid demand range the demand of item 0 was
\* drawn before the value draw failed.  reset had assigned nothing yet.
ResetFailsSampling ==
    /\ SamplingNeeded
    /\ DemandRangeEmpty \/ ValueRangeEmpty
    /\ \E d0 \in IF DemandRangeEmpty THEN {[r \in Resources |-> 0]}
                  ELSE {d[0] : d \in SampledDemands} :
           item_resource_demand' =
               [i \in Items |-> IF i = 0 THEN d0 ELSE [r \in Resources |-> 0]]
    /\ item_values' = [i \in Items |-> 0]
    /\ result' = [op |-> "reset", action |-> 0, error |-> ValueError,
                  obs |-> None, reward |-> None, terminated |-> FALSE,
                  truncated |-> FALSE, mask |-> None, reason |-> NoReason]
    /\ UNCHANGED << env_config, internal_state, total_value, actions_selected,
                    value_allocated, resources_allocated, action_mask, reward,
                    validation_env, aliased, active, trainers >>

\* a variant of reset without its last test
NeverAllUnavailable(unavailable) == FALSE

\* len(unavailable_items_indices) == self._num_items
AllUnavailable(unavailable) == Cardinality(unavailable) = NumItems

\* reset binds new objects to the four container fields and writes only to
\* those.  It calls itself while every item is unavailable.  A static or cached
\* instance is the same in every nested call, and a new draw may be degenerate
\* every time, so the recursion ends in Python's RecursionError; otherwise it
\* ends with the first instance that has an available item.
ResetBuildsState ==
    \E inst \in NextInstances :
        LET state == InitialInternalState(inst)
            unavailable == UnavailableItemsIndices(state)
            mask == MarkUnavailable([i \in Items |-> 0], unavailable)
            degenerate == AllUnavailable(unavailable)
        IN  /\ item_values' = inst.values
            /\ item_resource_demand' = inst.demand
            /\ internal_state' = state
            /\ total_value' = TotalValueOf(state)
            /\ actions_selected' = << >>
            /\ value_allocated' = 0
            /\ resources_allocated' = Zeros(NumResources)
            /\ action_mask' = mask
            /\ result' = [op |-> "reset", action |-> 0,
                          error |-> IF degenerate THEN RecursionError ELSE NoError,
                          obs |-> IF degenerate THEN None ELSE Observation(state),
                          reward |-> None, terminated |-> FALSE, truncated |-> FALSE,
                          mask |-> IF degenerate THEN None ELSE mask,
                          reason |-> NoReason]
            /\ aliased' = aliased \ MutableFields
            /\ transition_mask' = MaskAfterRebinding(transition_mask)
            /\ UNCHANGED << env_config, reward, validation_env, active,
                            mkp_saver, task_saver >>

\* reset: the instance cannot be drawn, or the episode state is rebuilt
Reset == ResetFailsSampling \/ ResetBuildsState

(* --------------------------------- step --------------------------------- *)

\* compute_reward: value_step / _total_value as the pair of its operands
ComputeReward(value_step) == << value_step, total_value >>

\* assert reward < 1.0: numpy gives nan for 0.0 / 0.0 and inf for x / 0.0, and
\* neither is below 1.0
RewardBelowOne(rw) == rw[2] > 0 /\ rw[1] < rw[2]

\* the first assertion of step
NotYetSelected(row) == internal_state[row].flag = 0

\* the second assertion of step: it reads the first num_resources entries of
\* the list _resources_allocated
WithinResourceLimit(resources_step) ==
    \A i \in Resources :
        resources_allocated[i + 1] + resources_step[i] <= initial_resources_capacity[i]

\* a variant that rebuilds the flag column from the chosen row alone
ApplySelectionForgetting(state, row, value_step, resources_step) ==
    [r0 \in Rows |->
        IF r0 = row
        THEN [flag |-> 1, value |-> 0, demand |-> [r \in Resources |-> 0]]
        ELSE IF r0 = NumItems
        THEN [flag |-> 0, value |-> state[r0].value + value_step,
              demand |-> [r \in Resources |->
                             state[r0].demand[r] - resources_step[r]]]
        ELSE [state[r0] EXCEPT !.flag = 0]]

\* lines 184-188: the chosen row is flagged and zeroed, then the aggregate row
\* takes the value and gives up the resources
ApplySelection(state, row, value_step, resources_step) ==
    LET marked == [state EXCEPT ![row] =
                      [flag |-> 1, value |-> 0, demand |-> [r \in Resources |-> 0]]]
    IN  [marked EXCEPT ![NumItems] =
            [flag |-> marked[NumItems].flag,
             value |-> marked[NumItems].value + value_step,
             demand |-> [r \in Resources |->
                            marked[NumItems].demand[r] - resources_step[r]]]]

\* _resources_allocated += resources_step, on two Python lists
ListIAdd(allocated, resources_step) ==
    allocated \o [k \in 1 .. NumResources |-> resources_step[k - 1]]

Failed(action_idx, err) ==
    [op |-> "step", action |-> action_idx, error |-> err, obs |-> None,
     reward |-> None, terminated |-> FALSE, truncated |-> FALSE, mask |-> None, reason |-> NoReason]

\* were the matrix a view of the two arrays, line 185 would write to them
InstanceSeenThroughMatrix ==
    IF item_values = None \/ internal_state' = None
    THEN [values |-> item_values, demand |-> item_resource_demand]
    ELSE [values |-> [i \in Items |-> internal_state'[i].value],
          demand |-> [i \in Items |-> internal_state'[i].demand]]

\* what the accessors item_values and item_resource_demand return after a
\* step: step assigns to neither field, and the matrix it writes to holds
\* copies of the two arrays (the slice assignments of lines 131-132)
InstanceAfterStep == [values |-> item_values, demand |-> item_resource_demand]

Step(action_idx) ==
    /\ Len(actions_selected) < MaxSteps
    /\ UNCHANGED << env_config, total_value >>
    /\ IF internal_state = None
       THEN \* None.append
            /\ result' = Failed(action_idx, AttributeError)
            /\ UNCHANGED << internal_state, actions_selected, value_allocated,
                            resources_allocated, reward, action_mask >>
       ELSE
       /\ actions_selected' = Append(actions_selected, action_idx)
       /\ IF ~IndexInBounds(action_idx)
          THEN /\ result' = Failed(action_idx, IndexError)
               /\ UNCHANGED << internal_state, value_allocated,
                               resources_allocated, reward, action_mask >>
          ELSE
          LET row == RowOf(action_idx)
              value_step == internal_state[row].value
              resources_step == internal_state[row].demand
              rw == ComputeReward(value_step)
          IN
          IF ~RewardBelowOne(rw)
          THEN /\ result' = Failed(action_idx, RewardAssertion)
               /\ UNCHANGED << internal_state, value_allocated,
                               resources_allocated, reward, action_mask >>
          ELSE
          /\ reward' = rw
          /\ IF ~NotYetSelected(row)
             THEN /\ result' = Failed(action_idx, TYPE_FAIL_1)
                  /\ UNCHANGED << internal_state, value_allocated,
                                  resources_allocated, action_mask >>
             ELSE
             IF ~WithinResourceLimit(resources_step)
             THEN /\ result' = Failed(action_idx, TYPE_FAIL_2)
                  /\ UNCHANGED << internal_state, value_allocated,
                                  resources_allocated, action_mask >>
             ELSE
             LET state == ApplySelection(internal_state, row, value_step, resources_step)
                 unavailable == UnavailableItemsIndices(state)
                 terminated == Cardinality(unavailable) = NumItems
                 mask == IF terminated THEN action_mask
                         ELSE MarkUnavailable(action_mask, unavailable)
             IN  /\ internal_state' = state
                 /\ value_allocated' = value_allocated + value_step
                 /\ resources_allocated' = ListIAdd(resources_allocated, resources_step)
                 /\ action_mask' = mask
                 /\ result' = [op |-> "step", action |-> action_idx, error |-> NoError,
                               obs |-> Observation(state), reward |-> rw, terminated |-> terminated,
                               truncated |-> FALSE,
                               mask |-> IF terminated THEN [i \in Items |-> 0 - 1]
                                        ELSE mask,
                               reason |-> IF terminated THEN TYPE_SUCCESS_2
                                          ELSE NoReason]
    /\ validation_env' =
           WriteThrough(validation_env,
                        [internal_state |-> internal_state',
                         actions_selected |-> actions_selected',
                         resources_allocated |-> resources_allocated',
                         action_mask |-> action_mask'])
    /\ item_values' = InstanceAfterStep.values
    /\ item_resource_demand' = InstanceAfterStep.demand
    /\ transition_mask' = MaskAfterWrite(transition_mask, action_mask')
    /\ UNCHANGED << aliased, active, mkp_saver, task_saver >>

(* ------------------------------ early stop ----------------------------- *)

\* -np.inf: below every reward
NegInf == 0 - MaxReward - 2

\* EarlyStopModelSaver.__init__ of either trainer, and the trainer's loop
\* before its first episode (n_episode 0, no reward yet).  model_saved is
\* None or << the reward in the name of the saved file >>.  below counts the
\* checks since the last one whose reward was not below the best before it;
\* it is kept for the claims only
NewSaver(patience) ==
    [patience |-> patience, counter |-> 0, max_validation_episode_reward |-> NegInf,
     model_saved |-> None, n_episode |-> 0, reward |-> 0, improved |-> FALSE,
     early_stop |-> FALSE, below |-> 0]

\* a variant of the MKP test with > for >=
MkpImprovesStrictly(saver, validation_episode_reward_avg) ==
    validation_episode_reward_avg > saver.max_validation_episode_reward

\* MKP trainer: validation_episode_reward_avg >= self.max_validation_episode_reward
MkpImproves(saver, validation_episode_reward_avg) ==
    validation_episode_reward_avg >= saver.max_validation_episode_reward

\* the reward is below the best of the checks before this one
BelowBest(saver, validation_episode_reward_avg) ==
    validation_episode_reward_avg < saver.max_validation_episode_reward

\* EarlyStopModelSaver.check of the MKP trainer, called after episode n_episode
MkpCheck(saver, validation_episode_reward_avg, n_episode) ==
    LET improved == MkpImproves(saver, validation_episode_reward_avg)
        counter == IF improved THEN 0 ELSE saver.counter + 1
    IN  [saver EXCEPT
            !.counter = counter,
            !.max_validation_episode_reward =
                IF improved THEN validation_episode_reward_avg ELSE @,
            !.model_saved = IF improved THEN << validation_episode_reward_avg >> ELSE @,
            !.n_episode = n_episode,
            !.reward = validation_episode_reward_avg,
            !.improved = improved,
            !.early_stop = ~improved /\ ~(counter < saver.patience),
            !.below = IF BelowBest(saver, validation_episode_reward_avg)
                      THEN @ + 1 ELSE 0]

\* task-allocation trainer: all(conditions)
TaskImproves(saver, validation_episode_reward_avg) ==
    /\ validation_episode_reward_avg > 0
    /\ validation_episode_reward_avg >= saver.max_validation_episode_reward

\* EarlyStopModelSaver.check of the task-allocation trainer: the counter is
\* incremented after the improvement branch has set it to 0, unless this is
\* the last episode.  Here below counts the checks that did not improve
TaskCheck(saver, validation_episode_reward_avg, n_episode) ==
    LET improved == TaskImproves(saver, validation_episode_reward_avg)
        last == n_episode = MaxEpisodes
        reset_counter == IF improved THEN 0 ELSE saver.counter
        counter == IF last THEN reset_counter ELSE reset_counter + 1
    IN  [saver EXCEPT
            !.counter = counter,
            !.max_validation_episode_reward =
                IF improved THEN validation_episode_reward_avg ELSE @,
            !.model_saved =
                IF improved \/ last THEN << validation_episode_reward_avg >> ELSE @,
            !.n_episode = n_episode,
            !.reward = validation_episode_reward_avg,
            !.improved = improved,
            !.early_stop = last \/ counter >= saver.patience,
            !.below = IF improved THEN 0 ELSE @ + 1]

(* ------------------------- float64 arithmetic -------------------------- *)

\* The rewards and their sum are binary64 floats.  A float is modelled as
\* << exp, bits >>: its value is 0.b1 b2 ... b53 (binary) times 2^exp, with
\* b1 = 1 unless the float is zero.  Division, addition and multiplication
\* round to nearest, ties to even, as the hardware does.
Precision == 53

\* v / t as a fraction in [1/2, 1) times a power of two
RECURSIVE Normalized(_, _, _)
Normalized(v, t, e) ==
    IF v >= t THEN Normalized(v, 2 * t, e + 1)
    ELSE IF 2 * v < t THEN Normalized(2 * v, t, e - 1)
    ELSE << v, t, e >>

\* (r * 2^k) % t, in steps that stay within the integers of the checker
RECURSIVE RemainderAfter(_, _, _)
RemainderAfter(r, t, k) ==
    IF k <= 8 THEN (r * 2^k) % t
    ELSE RemainderAfter((r * 2^8) % t, t, k - 8)

\* the first n binary digits of r / t, for r < t
QuotientBits(r, t, n) ==
    [k \in 1 .. n |-> (2 * RemainderAfter(r, t, k - 1)) \div t]

AnyOne(bits) == \E k \in 1 .. Len(bits) : bits[k] = 1

\* bits + 1 on a digit string that is not all ones
Incremented(bits) ==
    [k \in 1 .. Len(bits) |->
        IF \A j \in (k + 1) .. Len(bits) : bits[j] = 1 THEN 1 - bits[k] ELSE bits[k]]

\* bits is an exact mantissa of more than Precision digits, and sticky tells
\* whether nonzero digits follow it
Rounded(exp, bits, sticky) ==
    LET kept == SubSeq(bits, 1, Precision)
        guard == bits[Precision + 1]
        rest == sticky \/ AnyOne(SubSeq(bits, Precision + 2, Len(bits)))
        up == guard = 1 /\ (rest \/ kept[Precision] = 1)
    IN  IF ~up THEN << exp, kept >>
        ELSE IF ~\E k \in 1 .. Precision : kept[k] = 0
        THEN << exp + 1, << 1 >> \o [k \in 1 .. (Precision - 1) |-> 0] >>
        ELSE << exp, Incremented(kept) >>

FloatZero == << 0, [k \in 1 .. Precision |-> 0] >>

IsZero(x) == ~AnyOne(x[2])

\* float(v) / float(t) for integers v >= 0 and t > 0 that are floats exactly
FloatDiv(v, t) ==
    IF v = 0 THEN FloatZero
    ELSE LET n == Normalized(v, t, 0)
         IN  Rounded(n[3], QuotientBits(n[1], n[2], Precision + 1),
                     RemainderAfter(n[1], n[2], Precision + 1) # 0)

\* a + b on two digit strings of one length; the result has one digit more.
\* The carry into a position comes from a lower position where both digits
\* are 1, through positions where exactly one is
SumBits(a, b) ==
    LET n == Len(a)
        carry(k) == \E j \in (k + 1) .. n :
                        /\ a[j] + b[j] = 2
                        /\ \A i \in (k + 1) .. (j - 1) : a[i] + b[i] = 1
        digit(k) == IF k = 0 THEN 0 ELSE a[k] + b[k]
        sum == [k \in 1 .. (n + 1) |->
                   (digit(k - 1) + (IF carry(k - 1) THEN 1 ELSE 0)) % 2]
    IN  SubSeq(sum, 1, n + 1)

\* x + y
FloatAdd(x, y) ==
    IF IsZero(x) THEN y
    ELSE IF IsZero(y) THEN x
    ELSE LET big == IF x[1] >= y[1] THEN x ELSE y
             small == IF x[1] >= y[1] THEN y ELSE x
             shift == big[1] - small[1]
             a == big[2] \o [k \in 1 .. (shift + 1) |-> 0]
             b == [k \in 1 .. shift |-> 0] \o small[2] \o << 0 >>
             total == SumBits(a, b)
         IN  IF total[1] = 1
             THEN Rounded(big[1] + 1, total, FALSE)
             ELSE Rounded(big[1], SubSeq(total, 2, Len(total)), FALSE)

(* ----------------------------- specification ---------------------------- *)

\* the object as __init__ leaves it, for each configuration
Init ==
    /\ \/ env_config \in DemandConfigs
       \/ env_config \in ValueConfigs
       \/ env_config \in StaticConfigs
       \/ env_config \in NormalizedConfigs
       \/ env_config \in EmptyRangeConfigs
       \/ env_config \in RoundingConfigs
    /\ item_values = None
    /\ item_resource_demand = None
    /\ internal_state = None
    /\ actions_selected = << >>
    /\ value_allocated = 0
    /\ resources_allocated = Zeros(NumResources)
    /\ total_value = 0
    /\ reward = None
    /\ action_mask = None
    /\ result = [op |-> "init", action |-> 0, error |-> NoError, obs |-> None,
                 reward |-> None,
                 terminated |-> FALSE, truncated |-> FALSE, mask |-> None,
                 reason |-> NoReason]
    /\ validation_env = None
    /\ aliased = {}
    /\ active = "env"
    /\ mkp_saver = None
    /\ task_saver = None
    /\ transition_mask = None
    /\ episode_reward = FloatZero

\* step is called with an item's index, or with any other integer
Next ==
    \/ Reset /\ UNCHANGED episode_reward
    \/ \E action_idx \in Items : Step(action_idx) /\ UNCHANGED episode_reward
    \/ \E action_idx \in Actions \ Items : Step(action_idx) /\ UNCHANGED episode_reward

Spec == Init /\ [][Next]_vars

\* the training and validation loops: the agent picks among the items whose
\* entry in the ACTION_MASK of the last info is 0, until terminated is True,
\* and then resets
DriverStep ==
    /\ result.op \in {"reset", "step"}
    /\ result.error = NoError
    /\ ~result.terminated
    /\ \E action_idx \in Items :
          /\ result.mask[action_idx] = 0
          /\ Step(action_idx)

LegalNext ==
    \/ Reset /\ UNCHANGED episode_reward
    \/ DriverStep /\ UNCHANGED episode_reward

LegalSpec == Init /\ [][LegalNext]_vars

\* episode_reward += reward: the reward is the float value_step / total_value
\* of compute_reward (a step whose total_value is 0 does not return)
Accumulated(sum, rw) == FloatAdd(sum, FloatDiv(rw[1], rw[2]))

\* lines 172-173 of train_loop (and 300-302 of validate): the sum starts at
\* 0 with the reset that starts the episode
EpisodeReset ==
    /\ Reset
    /\ episode_reward' = FloatZero

\* the body of `while not done`: the step and the addition of its reward (a
\* step that raises ends the loop before the addition)
EpisodeStep ==
    /\ DriverStep
    /\ episode_reward' = IF result'.error = NoError
                         THEN Accumulated(episode_reward, result'.reward)
                         ELSE episode_reward

EpisodeNext ==
    \/ EpisodeReset
    \/ EpisodeStep

EpisodeSpec == Init /\ [][EpisodeNext]_vars

\* validation_env = deepcopy(env)
DeepCopy ==
    /\ validation_env = None
    /\ validation_env' = EnvObject
    /\ aliased' = DeepCopyAliases
    /\ UNCHANGED << env_config, item_values, item_resource_demand, internal_state,
                    actions_selected, value_allocated, resources_allocated,
                    total_value, reward, action_mask, result, active, trainers,
                    episode_reward >>

\* the caller turns from one environment to the other.  train_loop does so
\* between episodes (validate); here it may happen between any two calls
Switch ==
    /\ validation_env # None
    /\ validation_env' = EnvObject
    /\ item_values' = validation_env.item_values
    /\ item_resource_demand' = validation_env.item_resource_demand
    /\ internal_state' = validation_env.internal_state
    /\ actions_selected' = validation_env.actions_selected
    /\ value_allocated' = validation_env.value_allocated
    /\ resources_allocated' = validation_env.resources_allocated
    /\ total_value' = validation_env.total_value
    /\ reward' = validation_env.reward
    /\ action_mask' = validation_env.action_mask
    /\ result' = validation_env.result
    /\ active' = IF active = "env" THEN "validation_env" ELSE "env"
    /\ UNCHANGED << env_config, aliased, trainers, episode_reward >>

\* the trainer of f_dqn_train on a static configuration and on two same-mode
\* configurations, one of them with an empty range
CloneInit ==
    /\ Init
    /\ env_config \in StaticConfigs \cup NormalizedConfigs \cup EmptyRangeConfigs

CloneNext ==
    \/ DeepCopy
    \/ Switch
    \/ Reset /\ UNCHANGED episode_reward
    \/ DriverStep /\ UNCHANGED episode_reward

CloneSpec == CloneInit /\ [][CloneNext]_vars

\* DQN.__init__ of the two trainers builds the saver
EnvUnchanged ==
    UNCHANGED << env_config, item_values, item_resource_demand, internal_state,
                 actions_selected, value_allocated, resources_allocated, total_value,
                 reward, action_mask, result, validation_env, aliased, active,
                 episode_reward >>

NewMkpTrainer ==
    /\ mkp_saver = None
    /\ \E patience \in 1 .. MaxPatience : mkp_saver' = NewSaver(patience)
    /\ UNCHANGED << task_saver, transition_mask >>
    /\ EnvUnchanged

NewTaskTrainer ==
    /\ task_saver = None
    /\ \E patience \in 1 .. MaxPatience : task_saver' = NewSaver(patience)
    /\ UNCHANGED << mkp_saver, transition_mask >>
    /\ EnvUnchanged

\* one pass of train_loop's for loop: an episode, its validation, the check;
\* the loop ends with max_num_episodes or with `if is_terminated: break`
MkpTrainEpisode ==
    /\ mkp_saver # None
    /\ ~mkp_saver.early_stop
    /\ mkp_saver.n_episode < MaxEpisodes
    /\ \E validation_episode_reward_avg \in 0 .. MaxReward :
          mkp_saver' = MkpCheck(mkp_saver, validation_episode_reward_avg,
                                mkp_saver.n_episode + 1)
    /\ UNCHANGED << task_saver, transition_mask >>
    /\ EnvUnchanged

TaskTrainEpisode ==
    /\ task_saver # None
    /\ ~task_saver.early_stop
    /\ task_saver.n_episode < MaxEpisodes
    /\ \E validation_episode_reward_avg \in (0 - 1) .. MaxReward :
          task_saver' = TaskCheck(task_saver, validation_episode_reward_avg,
                                  task_saver.n_episode + 1)
    /\ UNCHANGED << mkp_saver, transition_mask >>
    /\ EnvUnchanged

\* replay_buffer.append(transition), followed for one transition of the
\* buffer: its action_mask field is info["ACTION_MASK"] of the call that has
\* just returned
AppendTransition ==
    /\ transition_mask = None
    /\ result.op \in {"reset", "step"}
    /\ result.error = NoError
    /\ transition_mask' = HeldMask(result.mask, result.terminated)
    /\ UNCHANGED << mkp_saver, task_saver >>
    /\ EnvUnchanged

BufferNext ==
    \/ Reset /\ UNCHANGED episode_reward
    \/ DriverStep /\ UNCHANGED episode_reward
    \/ AppendTransition

BufferSpec == Init /\ [][BufferNext]_vars

\* the two trainers next to one static environment
TrainerInit ==
    /\ Init
    /\ env_config \in StaticConfigs

TrainerNext ==
    \/ NewMkpTrainer
    \/ NewTaskTrainer
    \/ MkpTrainEpisode
    \/ TaskTrainEpisode

TrainerSpec == TrainerInit /\ [][TrainerNext]_vars

(* ------------------------ vocabulary of the claims ---------------------- *)

\* a call of reset or step has returned to its caller without raising
Returned == result.op \in {"reset", "step"} /\ result.error = NoError

Selected(i) == internal_state[i].flag = 1

\* the summed demand, in resource r, of the selected items of the instance
Consumed(r) ==
    SumOver([i \in Items |-> IF Selected(i) THEN item_resource_demand[i][r] ELSE 0],
            Items)

\* the summed value of the selected items of the instance
SelectedValue ==
    SumOver([i \in Items |-> IF Selected(i) THEN item_values[i] ELSE 0], Items)

\* item i fits into what the selected items leave of every resource
Fits(i) ==
    \A r \in Resources :
        Consumed(r) + item_resource_demand[i][r] <= initial_resources_capacity[r]

\* the transition is a call step(a) on an item a, made after a reset
StepOnItem(a) ==
    /\ internal_state # None
    /\ result'.op = "step"
    /\ result'.action = a

\* a legal step: the item is unselected and feasible in the state before the call
LegalStep(a) == StepOnItem(a) /\ ~Selected(a) /\ Fits(a)

\* the digit string of n times the integer that bits spells, n >= 1
RECURSIVE ExactTimes(_, _)
ExactTimes(bits, n) ==
    IF n = 1 THEN bits
    ELSE LET part == ExactTimes(bits, n - 1)
         IN  SumBits(part, [k \in 1 .. (Len(part) - Len(bits)) |-> 0] \o bits)

\* the float product x * float(n) for an integer n >= 0
FloatTimes(x, n) ==
    IF IsZero(x) \/ n = 0 THEN FloatZero
    ELSE LET product == ExactTimes(x[2], n)
             first == CHOOSE k \in 1 .. Len(product) :
                          product[k] = 1 /\ \A j \in 1 .. (k - 1) : product[j] = 0
             digits == SubSeq(product, first, Len(product)) \o << 0 >>
         IN  Rounded(x[1] + Len(product) - Precision - (first - 1), digits, FALSE)

\* x <= 1.0
AtMostOne(x) == IsZero(x) \/ x[1] <= 0 \/ x = FloatDiv(1, 1)

(* -------------------------------- claims -------------------------------- *)

\* C1 (capacity invariant): in every state reached by reset and steps, the
\* summed demand of the selected items is at most the capacity in every
\* resource.
CapacityInvariant ==
    internal_state # None =>
        \A r \in Resources : Consumed(r) <= initial_resources_capacity[r]

\* C2: a step on an item whose mask entry is 1 is rejected with an error, whether
\* the item is already selected or is unselected and no longer fits.
MaskedStepRejected ==
    [][\A a \in Items :
          (StepOnItem(a) /\ action_mask[a] = 1) => result'.error # NoError]_vars

\* C3 (mask correctness): after reset and after every step that returns, the
\* mask entry of item i is 1 iff i is selected or does not fit in some resource.
MaskCorrect ==
    Returned => \A i \in Items : (action_mask[i] = 1) <=> (Selected(i) \/ ~Fits(i))

\* C4: a step whose action index is outside 0 .. num_items - 1 is rejected with
\* an error.
OutOfRangeRejected ==
    (result.op = "step" /\ result.action \notin Items) => result.error # NoError

\* C5: a step on an already-selected item fails and leaves the episode state as
\* it was: matrix, consumed resources, value, mask, history and stored reward.
SameItemFailureLeavesState ==
    [][\A a \in Items :
          (StepOnItem(a) /\ Selected(a)) =>
              /\ result'.error # NoError
              /\ UNCHANGED << internal_state, resources_allocated, value_allocated,
                              action_mask, actions_selected, reward >>]_vars

\* C6 (termination completeness): a step that returns reports terminated iff no
\* item is both unselected and feasible in the state after the step.
TerminationComplete ==
    (result.op = "step" /\ result.error = NoError) =>
        (result.terminated <=> ~\E i \in Items : ~Selected(i) /\ Fits(i))

\* C7: the reason carried by a terminating step tells the two terminal cases
\* apart: "all items allocated" iff every item is selected, "no feasible items
\* remain" iff some item is still unselected.
ReasonDistinguishes ==
    (result.op = "step" /\ result.error = NoError /\ result.terminated) =>
        /\ (result.reason = TYPE_SUCCESS_1) <=> (\A i \in Items : Selected(i))
        /\ (result.reason = TYPE_SUCCESS_2) <=> (\E i \in Items : ~Selected(i))

\* C8 (value conservation): after reset and after every step that returns,
\* value_allocated is the summed value of the selected items.
ValueConservation == Returned => value_allocated = SelectedValue

\* C9 (reward bound): with total_value > 0, every legal step returns, and its
\* reward r satisfies 0 <= r < 1.
RewardBound ==
    [][\A a \in Items :
          (LegalStep(a) /\ total_value > 0) =>
              /\ result'.error = NoError
              /\ result'.reward[1] >= 0
              /\ result'.reward[1] < result'.reward[2]]_vars

\* C10: a legal step that returns has reward value[action] / total_value, and
\* with total_value = 0 a legal step returns with reward 0.
RewardIsShare ==
    [][\A a \in Items :
          LegalStep(a) =>
              /\ (total_value > 0 /\ result'.error = NoError) =>
                     result'.reward[1] * total_value = item_values[a] * result'.reward[2]
              /\ total_value = 0 =>
                     (result'.error = NoError /\ result'.reward[1] = 0)]_vars

\* a call of reset has returned its observation and info
ResetReturned == result.op = "reset" /\ result.error = NoError

\* C11: whenever reset returns, the mask it returns marks at least one item
\* as available
ResetMaskHasAvailable ==
    ResetReturned => \E i \in Items : result.mask[i] = 0

\* reset returned an instance in which some item, but not every item, is masked
ResetReturnedPartlyMasked ==
    ResetReturned /\ \E i \in Items : result.mask[i] = 1

\* C12: reset never ends in unbounded recursion: a call that finds no instance
\* with an available item fails with an error of its own
ResetNeverRecursesWithoutBound ==
    result.op = "reset" => result.error # RecursionError

\* C13: after reset returns, no item is selected, nothing is consumed and the
\* remaining capacity is the configured one, value_allocated is 0, the history
\* is empty and total_value is the sum of the instance's values
FreshAfterReset ==
    ResetReturned =>
        /\ \A i \in Items : ~Selected(i)
        /\ \A r \in Resources :
              /\ Consumed(r) = 0
              /\ internal_state[NumItems].demand[r] = initial_resources_capacity[r]
        /\ internal_state[NumItems].value = 0
        /\ resources_allocated = Zeros(NumResources)
        /\ value_allocated = 0
        /\ actions_selected = << >>
        /\ total_value = SumOver(item_values, Items)

\* reset returned after an episode in which a step had got as far as its reward
ResetAfterUsedEpisode ==
    /\ ResetReturned
    /\ reward # None

\* the observation of the untouched static instance
StaticInitialObservation ==
    Observation(InitialInternalState([values |-> STATIC_VALUE_SAMPLE,
                                      demand |-> STATIC_RESOURCE_DEMAND_SAMPLE]))

\* C14: in static mode every reset that returns leaves the one static instance
\* in the environment and returns the one initial observation, whatever steps
\* came before it
StaticResetIdentical ==
    (env_config.use_static_item_resource_demand /\ ResetReturned) =>
        /\ item_values = STATIC_VALUE_SAMPLE
        /\ item_resource_demand = STATIC_RESOURCE_DEMAND_SAMPLE
        /\ result.obs = StaticInitialObservation

\* a static environment was reset after an episode with a step
StaticResetAfterSteps ==
    /\ env_config.use_static_item_resource_demand
    /\ ResetReturned
    /\ reward # None

\* same mode without the static flag
SharedAcrossEpisodes ==
    /\ env_config.use_same_item_resource_demand
    /\ ~env_config.use_static_item_resource_demand

\* C15: in same mode, once the first reset has stored an instance, no reset and
\* no step changes it, and every reset that returns starts from that instance
SameInstanceReused ==
    [][(SharedAcrossEpisodes /\ item_resource_demand # None) =>
          /\ item_values' = item_values
          /\ item_resource_demand' = item_resource_demand
          /\ (result'.op = "reset" /\ result'.error = NoError) =>
                internal_state' =
                    InitialInternalState([values |-> item_values,
                                          demand |-> item_resource_demand])]_vars

\* a same-mode environment was reset again after a step had selected an item
SameResetAfterSteps ==
    /\ SharedAcrossEpisodes
    /\ ResetReturned
    /\ value_allocated = 0
    /\ reward # None

\* C16: a step, successful or failed, never clears the flag of an item
FlagsMonotone ==
    [][(internal_state # None /\ result'.op = "step") =>
          \A i \in Items : Selected(i) => internal_state'[i].flag = 1]_vars

\* a step has failed after an earlier step had selected an item
FailedStepAfterSelection ==
    /\ result.op = "step"
    /\ result.error # NoError
    /\ \E k \in 1 .. Len(actions_selected) :
          /\ actions_selected[k] \in Items
          /\ Selected(actions_selected[k])
          /\ k < Len(actions_selected)

\* the matrix the observation is said to flatten: each item with its flag and
\* its instance value and demand, then (0, value_allocated, remaining capacity)
InstanceMatrix ==
    [row \in Rows |->
        IF row < NumItems
        THEN [flag |-> IF Selected(row) THEN 1 ELSE 0,
              value |-> item_values[row],
              demand |-> item_resource_demand[row]]
        ELSE [flag |-> 0,
              value |-> value_allocated,
              demand |-> [r \in Resources |->
                             initial_resources_capacity[r] - Consumed(r)]]]

\* C17: without normalization every returned observation is the flattening of
\* the items' flags, instance values and instance demands, selected or not,
\* and of the aggregate row
ObservationShowsInstance ==
    (Returned /\ ~env_config.state_normalization) =>
        result.obs = Flatten(Plain(InstanceMatrix))

\* C18: with normalization every entry of every returned observation lies
\* between 0 and 1
NormalizedObservationInUnitRange ==
    (Returned /\ env_config.state_normalization) =>
        \A k \in DOMAIN result.obs :
            /\ result.obs[k][1] >= 0
            /\ result.obs[k][1] <= result.obs[k][2]

\* a configuration whose sampling ranges all hold at least one integer
\* (num_items and the capacities are positive in every configuration here)
SamplingRangesValid(config) ==
    /\ config.lowest_item_value < config.highest_item_value
    /\ \A r \in Resources :
          config.lowest_item_resource_demand[r] <
              config.highest_item_resource_demand[r]

\* C19: an environment with an empty or inverted sampling range is refused at
\* construction, so neither reset nor step is ever called on it
InvalidConfigNeverUsed ==
    ~SamplingRangesValid(env_config) => result.op \notin {"reset", "step"}

\* C20: a step on one of the two environments leaves every field of the
\* other as it was, so each environment answers as it would answer alone
CloneIsolation ==
    [][(validation_env # None /\ active' = active /\ result'.op = "step") =>
          validation_env' = validation_env]_vars

\* both environments are in the middle of an episode, on different histories
BothEnvironmentsStepped ==
    /\ validation_env # None
    /\ result.op = "step" /\ result.error = NoError
    /\ validation_env.result.op = "step"
    /\ validation_env.result.error = NoError
    /\ validation_env.actions_selected # actions_selected

\* C21: a step never changes what the accessors item_values and
\* item_resource_demand return (the capacity is the same list in every state)
InstanceUnchangedByStep ==
    [][(result'.op = "step" /\ active' = active) =>
          /\ item_values' = item_values
          /\ item_resource_demand' = item_resource_demand]_vars

\* a step has selected an item whose value or demand is not zero
SelectedItemWithData ==
    /\ result.op = "step" /\ result.error = NoError
    /\ \E i \in Items :
          /\ Selected(i)
          /\ item_values[i] > 0 \/ \E r \in Resources : item_resource_demand[i][r] > 0

\* C22: the consumed-resources list always has num_resources entries, and
\* entry r is the summed demand in r of the selected items
ResourcesAllocatedIsConsumed ==
    Returned =>
        /\ Len(resources_allocated) = NumResources
        /\ \A r \in Resources : resources_allocated[r + 1] = Consumed(r)

\* C23: the task-allocation check returns True before the last episode only
\* when the last patience checks all failed to improve, and never on a check
\* whose reward improves
TaskStopOnlyAfterPatience ==
    (/\ task_saver # None
     /\ task_saver.early_stop
     /\ task_saver.n_episode < MaxEpisodes) =>
        /\ ~task_saver.improved
        /\ task_saver.below >= task_saver.patience

\* C24: the MKP check returns True exactly when the run of checks with a
\* reward below the best reaches patience; a check with reward >= the best
\* sets the counter to 0, saves the model and returns False
MkpStopExactlyAtPatience ==
    (mkp_saver # None /\ mkp_saver.n_episode > 0) =>
        /\ mkp_saver.early_stop <=> mkp_saver.below = mkp_saver.patience
        /\ mkp_saver.counter = mkp_saver.below
        /\ mkp_saver.below = 0 =>
              /\ mkp_saver.counter = 0
              /\ mkp_saver.model_saved = << mkp_saver.reward >>
              /\ ~mkp_saver.early_stop

\* the MKP trainer stopped early after a check had reset the counter
MkpStoppedAfterImprovement ==
    /\ mkp_saver # None
    /\ mkp_saver.early_stop
    /\ mkp_saver.n_episode > mkp_saver.patience + 1

\* C25: a step on an unmasked item returns, and it returns terminated = true
\* or leaves an unmasked item with fewer than num_items steps made, so an
\* episode of such steps ends within num_items steps
LegalEpisodeTerminates ==
    result.op = "step" =>
        /\ result.error = NoError
        /\ \/ result.terminated
           \/ /\ Len(actions_selected) < NumItems
              /\ \E i \in Items : result.mask[i] = 0

\* C26: when every step is on an item the last returned mask leaves open,
\* neither assertion of step fails and no remaining capacity is negative
LegalStepsPassGuards ==
    /\ result.error \notin {TYPE_FAIL_1, TYPE_FAIL_2}
    /\ internal_state # None =>
          \A r \in Resources : internal_state[NumItems].demand[r] >= 0

\* a step on an unmasked item has left an unselected item masked for its demand
LegalStepMaskedByDemand ==
    /\ result.op = "step" /\ result.error = NoError
    /\ ~result.terminated
    /\ \E i \in Items : ~Selected(i) /\ result.mask[i] = 1

\* C27: a mask handed out by reset or step keeps the contents it had when it
\* was handed out, whatever calls follow
ReturnedMaskIsSnapshot ==
    transition_mask # None => transition_mask.now = transition_mask.stored

\* C28: in an episode of steps on unmasked items with total_value > 0, after
\* every step the sum of the rewards times total_value is value_allocated, the
\* sum is value_allocated / total_value, and it is at most 1
EpisodeRewardIsShare ==
    (result.op = "step" /\ result.error = NoError /\ total_value > 0) =>
        /\ FloatTimes(episode_reward, total_value) = FloatDiv(value_allocated, 1)
        /\ episode_reward = FloatDiv(value_allocated, total_value)
        /\ AtMostOne(episode_reward)

\* C29: in the mode that shares one instance across episodes, an environment
\* and its deepcopy hold the same item values and demands once both have an
\* instance, whenever the copy was made
CloneSharesInstance ==
    (/\ SharedAcrossEpisodes
     /\ validation_env # None
     /\ item_resource_demand # None
     /\ validation_env.item_resource_demand # None) =>
        /\ item_values = validation_env.item_values
        /\ item_resource_demand = validation_env.item_resource_demand

\* C30: after reset and after every step that returns, whatever the action,
\* the aggregate row of the internal state is (0, _value_allocated, the
\* capacity less the demand of the selected items)
AggregateRowAgrees ==
    Returned =>
        /\ internal_state[NumItems].flag = 0
        /\ internal_state[NumItems].value = value_allocated
        /\ \A r \in Resources :
              internal_state[NumItems].demand[r] =
                  initial_resources_capacity[r] - Consumed(r)
====
